---- MODULE Spec2Model ----
(***************************************************************************)
(* A model of mock-db-router: an HTTP server that answers every request    *)
(* from a row of the table mock_responses.  Two programs are modelled:     *)
(*   - src/main.go            (lookup by path and method; "main" variant)  *)
(*   - src/unnamed/part_001   (lookup by path, method and request body;    *)
(*                             "body" variant)                             *)
(* Texts the programs take apart character by character (header lists,     *)
(* JSON bodies) are sequences of one-character strings.  Paths, methods    *)
(* and response bodies are only compared or copied and are TLA+ strings.   *)
(***************************************************************************)
EXTENDS Integers, Sequences, FiniteSets, TLC

VARIABLES
    variant,    \* which program runs: "main" (src/main.go) or "body" (part_001)
    store,      \* the rows of mock_responses
    req,        \* the request handled last (NoRequest before the first)
    dbres,      \* what getMockResponse returned for it
    resp,       \* the http.ResponseWriter after the handler returned
    queries,    \* db.QueryRowContext calls made while handling it
    hdrIn,      \* parseHeaders: its argument
    hdrOut,     \* parseHeaders: its result
    hdrBy,      \* parseHeaders: which program's copy ran ("none" before)
    pc,         \* initDB: where each caller stands
    callErr,    \* initDB: each caller's local variable err
    ret,        \* initDB: what each finished caller returned
    onceDone,   \* sync.Once: the done flag
    onceMu,     \* sync.Once: the holder of the mutex (NoCaller when free)
    db,         \* the package variable db: the pool's state
    runs,       \* how many times the body passed to once.Do has been entered
    finished,   \* how many times that body has returned
    world,      \* what the database server does to sql.Open and db.Ping
    serving     \* main reached http.ListenAndServe

vars == <<variant, store, req, dbres, resp, queries, hdrIn, hdrOut, hdrBy,
          pc, callErr, ret, onceDone, onceMu, db, runs, finished, world, serving>>

handlerVars == <<variant, store, req, dbres, resp, queries>>
hdrVars == <<hdrIn, hdrOut, hdrBy>>
initVars == <<pc, callErr, ret, onceDone, onceMu, db, runs, finished, world, serving>>

\* A nullable column as database/sql sees it (sql.NullString, sql.NullInt64):
\* Valid is false for NULL.
Null(zero) == [Valid |-> FALSE, V |-> zero]
NotNull(v) == [Valid |-> TRUE, V |-> v]

(***************************************************************************)
(* Bounds of the model.                                                    *)
(***************************************************************************)
\* Longest serialized header list parseHeaders is applied to.
MaxLen == 6
\* Most rows the table holds.
MaxRecords == 2
\* Callers of initDB beside main.
ExtraCallers == 1

(***************************************************************************)
(* package strings                                                         *)
(***************************************************************************)
\* s[lo..hi], empty when hi < lo.
Slice(s, lo, hi) == [i \in 1..(IF hi < lo THEN 0 ELSE hi - lo + 1) |-> s[lo + i - 1]]

\* unicode.IsSpace, on the characters of the model.
IsSpace(c) == c = " "

\* strings.Index(s, sep) for a one-character sep, 1-based; 0 when absent.
Index(s, sep) ==
    IF \E i \in 1..Len(s) : s[i] = sep
    THEN CHOOSE i \in 1..Len(s) : s[i] = sep /\ \A j \in 1..(i - 1) : s[j] # sep
    ELSE 0

RECURSIVE TrimLeft(_)
TrimLeft(s) == IF s # <<>> /\ IsSpace(Head(s)) THEN TrimLeft(Tail(s)) ELSE s

RECURSIVE TrimRight(_)
TrimRight(s) ==
    IF s # <<>> /\ IsSpace(s[Len(s)]) THEN TrimRight(Slice(s, 1, Len(s) - 1)) ELSE s

\* strings.TrimSpace
TrimSpace(s) == TrimRight(TrimLeft(s))

\* strings.Split(s, sep): the substrings between the separators, in order.
RECURSIVE Split(_, _)
Split(s, sep) ==
    LET i == Index(s, sep)
    IN  IF i = 0 THEN <<s>>
        ELSE <<Slice(s, 1, i - 1)>> \o Split(Slice(s, i + 1, Len(s)), sep)

\* A SplitN that cuts at the last separator instead of the first.
SplitNLast(s, sep) ==
    IF Index(s, sep) = 0 THEN <<s>>
    ELSE LET i == CHOOSE k \in 1..Len(s) :
                      s[k] = sep /\ \A j \in (k + 1)..Len(s) : s[j] # sep
         IN  <<Slice(s, 1, i - 1), Slice(s, i + 1, Len(s))>>

\* strings.SplitN(s, sep, 2): at most two substrings, cut at the first sep.
SplitN(s, sep) ==
    LET i == Index(s, sep)
    IN  IF i = 0 THEN <<s>>
        ELSE <<Slice(s, 1, i - 1), Slice(s, i + 1, Len(s))>>

(***************************************************************************)
(* parseHeaders                                                            *)
(***************************************************************************)
\* make(map[string]string)
EmptyMap == [k \in {} |-> <<>>]

\* m[k] = v
MapSet(m, k, v) == [x \in DOMAIN m \cup {k} |-> IF x = k THEN v ELSE m[x]]

\* The body of the loop over pairs: one pair applied to the map headers.
HeaderPair(headers, rawPair) ==
    LET pair == TrimSpace(rawPair)
    IN  IF pair = <<>> THEN headers
        ELSE LET kv == SplitN(pair, "=")
             IN  IF Len(kv) = 2
                 THEN MapSet(headers, TrimSpace(kv[1]), TrimSpace(kv[2]))
                 ELSE headers

\* for _, pair := range pairs, from the first pair to the last.
RECURSIVE HeaderLoop(_, _)
HeaderLoop(headers, pairs) ==
    IF pairs = <<>> THEN headers
    ELSE HeaderLoop(HeaderPair(headers, Head(pairs)), Tail(pairs))

\* parseHeaders of src/main.go: headerStr is a string.
parseHeadersMain(headerStr) ==
    IF headerStr = <<>> THEN EmptyMap
    ELSE HeaderLoop(EmptyMap, Split(headerStr, ";"))

\* parseHeaders of part_001: headerStr is a sql.NullString.
parseHeaders(headerStr) ==
    IF ~headerStr.Valid \/ headerStr.V = <<>> THEN EmptyMap
    ELSE HeaderLoop(EmptyMap, Split(headerStr.V, ";"))

(***************************************************************************)
(* JSON texts.  A text is a sequence of lexemes, one character each:       *)
(*   {  }  :  ,      structure                                             *)
(*   " "             white space                                           *)
(*   a  b            the string literals "a" and "b"                       *)
(*   z               the string literal "\u0000"                           *)
(*   1  2            the number literals 1 and 2                           *)
(*   h               the number literal 1e400                              *)
(* and anything else (x) is a lexeme no JSON text holds.                   *)
(* encoding/json and PostgreSQL's jsonb agree on the grammar and differ on *)
(* two lexemes: json.Unmarshal into interface{} stores a number as float64 *)
(* and fails on 1e400 (out of range), which jsonb keeps as a numeric;      *)
(* jsonb rejects the escape \u0000 ("unsupported Unicode escape            *)
(* sequence"), which json.Unmarshal decodes.                               *)
(***************************************************************************)
StringLits == {"a", "b", "z"}
NumberLits == {"1", "2", "h"}
\* jsonb orders the keys of an object by length, then bytewise.
KeyOrder == <<"a", "b", "z">>

\* The first index from i on that holds no white space (Len(s) + 1 if none).
RECURSIVE SkipWs(_, _)
SkipWs(s, i) == IF i <= Len(s) /\ IsSpace(s[i]) THEN SkipWs(s, i + 1) ELSE i

ParseFail == [ok |-> FALSE, next |-> 0, text |-> <<>>, z |-> FALSE, h |-> FALSE]

\* The canonical text of an object whose members are m (key -> canonical text):
\* jsonb's output, keys in order, ": " and ", " as separators.
RECURSIVE RenderMembers(_, _, _)
RenderMembers(m, k, first) ==
    IF k > Len(KeyOrder) THEN <<>>
    ELSE IF KeyOrder[k] \in DOMAIN m
         THEN (IF first THEN <<>> ELSE <<",", " ">>)
              \o <<KeyOrder[k], ":", " ">> \o m[KeyOrder[k]]
              \o RenderMembers(m, k + 1, FALSE)
         ELSE RenderMembers(m, k + 1, first)

RenderObject(m) == <<"{">> \o RenderMembers(m, 1, TRUE) \o <<"}">>

\* A recursive-descent parser.  ParseValue(s, i) reads one value from index i:
\* ok, the index after it, its canonical text, and whether it holds the
\* lexemes z and h.  A later member with the key of an earlier one replaces it.
RECURSIVE ParseValue(_, _)
RECURSIVE ParseMembers(_, _, _, _, _)
ParseValue(s, i) ==
    LET j == SkipWs(s, i)
    IN  IF j > Len(s) THEN ParseFail
        ELSE IF s[j] \in StringLits \cup NumberLits
        THEN [ok |-> TRUE, next |-> j + 1, text |-> <<s[j]>>,
              z |-> s[j] = "z", h |-> s[j] = "h"]
        ELSE IF s[j] = "{"
        THEN LET k == SkipWs(s, j + 1)
             IN  IF k <= Len(s) /\ s[k] = "}"
                 THEN [ok |-> TRUE, next |-> k + 1, text |-> RenderObject(EmptyMap),
                       z |-> FALSE, h |-> FALSE]
                 ELSE ParseMembers(s, j + 1, EmptyMap, FALSE, FALSE)
        ELSE ParseFail

\* The members of an object from index i on, up to its closing brace.
ParseMembers(s, i, m, z, h) ==
    LET j == SkipWs(s, i)
        c == SkipWs(s, j + 1)
    IN  IF j > Len(s) \/ c > Len(s) THEN ParseFail
        ELSE IF s[j] \notin StringLits \/ s[c] # ":" THEN ParseFail
        ELSE LET v == ParseValue(s, c + 1)
                 e == SkipWs(s, v.next)
                 m2 == MapSet(m, s[j], v.text)
                 z2 == z \/ v.z \/ s[j] = "z"
                 h2 == h \/ v.h
             IN  IF ~v.ok \/ e > Len(s) THEN ParseFail
                 ELSE IF s[e] = ","
                 THEN ParseMembers(s, e + 1, m2, z2, h2)
                 ELSE IF s[e] = "}"
                 THEN [ok |-> TRUE, next |-> e + 1, text |-> RenderObject(m2),
                       z |-> z2, h |-> h2]
                 ELSE ParseFail

\* A whole text: one value and nothing but white space around it.
ParseJSON(s) ==
    LET v == ParseValue(s, 1)
    IN  IF v.ok /\ SkipWs(s, v.next) > Len(s) THEN v ELSE ParseFail

\* json.Unmarshal([]byte(s), &temp) with temp an interface{}: err == nil.
UnmarshalOK(s) == LET v == ParseJSON(s) IN v.ok /\ ~v.h

\* s::jsonb succeeds.
JsonbOK(s) == LET v == ParseJSON(s) IN v.ok /\ ~v.z

\* s::jsonb::text
JsonbText(s) == ParseJSON(s).text

\* md5(t) of a text t.  Distinct texts of the model have distinct digests (a
\* collision of MD5 is outside the model); the digest is a text that is no
\* JSON text.
Md5(t) == <<"md5">> \o t

(***************************************************************************)
(* net/http: the request and the response writer                           *)
(***************************************************************************)
\* "Content-Type" and, as a client or an operator may spell it, "content-type".
ContentType == <<"C","o","n","t","e","n","t","-","T","y","p","e">>
contentType == <<"c","o","n","t","e","n","t","-","t","y","p","e">>
NoSniffKey == <<"X-Content-Type-Options">>
AppJSON == <<"application/json">>
TextPlain == <<"text/plain; charset=utf-8">>

StatusOK == 200
StatusBadRequest == 400
StatusNotFound == 404
StatusInternalServerError == 500

ToUpper(c) == CASE c = "c" -> "C" [] c = "t" -> "T" [] c = "x" -> "X" [] OTHER -> c
ToLower(c) == CASE c = "C" -> "c" [] c = "T" -> "t" [] c = "X" -> "x" [] OTHER -> c

\* textproto.CanonicalMIMEHeaderKey: a key holding a byte no header name may
\* hold (a space) is left as it is; otherwise the first letter and every letter
\* after a "-" is upper case and the others lower case.
CanonicalMIMEHeaderKey(k) ==
    IF \E i \in 1..Len(k) : IsSpace(k[i]) THEN k
    ELSE [i \in 1..Len(k) |->
            IF i = 1 \/ k[i - 1] = "-" THEN ToUpper(k[i]) ELSE ToLower(k[i])]

\* The http.ResponseWriter a handler is given: no header, nothing written.
\* status is 0 until WriteHeader; writes counts the calls of WriteHeader
\* (explicit or by a first Write); out is what Write was given, call by call.
NewWriter == [header |-> EmptyMap, status |-> 0, writes |-> 0, out |-> <<>>]

\* w.Header().Set(key, value)
HeaderSet(w, key, value) ==
    [w EXCEPT !.header = MapSet(w.header, CanonicalMIMEHeaderKey(key), value)]

\* w.Header().Get(key): "" when the key is absent.
HeaderGet(w, key) ==
    LET k == CanonicalMIMEHeaderKey(key)
    IN  IF k \in DOMAIN w.header THEN w.header[k] ELSE <<>>

\* w.WriteHeader(code): the status line is sent once; a later call changes nothing
\* of it and is counted.
WriteHeader(w, code) ==
    [w EXCEPT !.status = IF w.writes = 0 THEN code ELSE w.status,
              !.writes = w.writes + 1]

\* w.Write(b): begins the response with 200 if WriteHeader was not called.
Write(w, b) ==
    LET w1 == IF w.writes = 0 THEN WriteHeader(w, StatusOK) ELSE w
    IN  [w1 EXCEPT !.out = Append(w1.out, b)]

\* http.Error(w, msg, code)
httpError(w, msg, code) ==
    LET w1 == HeaderSet(HeaderSet(w, ContentType, TextPlain), NoSniffKey, <<"nosniff">>)
    IN  Write(WriteHeader(w1, code), msg)

\* http.NotFound(w, r)
httpNotFound(w) == httpError(w, "404 page not found", StatusNotFound)

\* buildFullPath
buildFullPath(r) ==
    IF r.RawQuery # "" THEN r.Path \o "?" \o r.RawQuery ELSE r.Path

(***************************************************************************)
(* The table mock_responses and the requests of the model                  *)
(***************************************************************************)
Methods == {"GET", "POST"}

B_one == <<"1">>
B_obj == <<"{","a",":","1",",","b",":","2","}">>
\* B_obj with its members in the other order and white space added.
B_objReordered == <<"{"," ","b",":","2",",","a",":"," ","1","}">>
\* B_obj with another value for b.
B_objOther == <<"{","a",":","1",",","b",":","1","}">>
\* No JSON text: the closing brace is missing.
B_truncated == <<"{","a",":","1">>
\* json.Unmarshal accepts it, jsonb rejects it.
B_nul == <<"{","a",":","z","}">>
\* jsonb accepts it, json.Unmarshal rejects it.
B_huge == <<"h">>

Bodies == {<<>>, B_one, B_obj, B_objReordered, B_objOther, B_truncated,
           B_nul, B_huge}

\* An inbound request.  BodyErr: reading r.Body fails (the client went away,
\* the chunked encoding is broken).
Requests ==
    [Path : {"/u"}, RawQuery : {"", "x=1"}, Method : Methods, Body : Bodies,
     BodyErr : {FALSE}]
    \cup [Path : {"/u"}, RawQuery : {"", "x=1"}, Method : Methods, Body : {<<>>},
          BodyErr : {TRUE}]

NoRequest == [Path |-> "", RawQuery |-> "", Method |-> "", Body |-> <<>>,
              BodyErr |-> FALSE]

\* Header lists an operator may store.
H_x == <<"X","=","1">>
\* Two keys that name one header: "x" and "X".
H_xTwice == <<"x","=","1",";","X","=","2">>
H_ctLower == contentType \o <<"=","t",";","X","=","1">>
H_ctEmpty == ContentType \o <<"=">>
H_ctTwice == ContentType \o <<"=","t",";"," ">> \o ContentType \o <<" ","="," ","u">>

\* Rows of the table.  request_body, response_status_code and headers are
\* nullable in both tables of create_db_script.sql; response_body is nullable
\* in the table of src/main.go only, which has no request_body column (it is
\* NULL in the model and the query of src/main.go never reads it) and holds at
\* most one row for a path and a method (UNIQUE(path, method)).
Row(p, m, rb, body, code, hs) ==
    [path |-> p, method |-> m, request_body |-> rb, response_body |-> body,
     response_status_code |-> code, headers |-> hs]

\* The keys of the rows of Spec: two paths under GET, one of them under POST.
RowKeys == {<<"/u", "GET">>, <<"/u?x=1", "GET">>, <<"/u", "POST">>}
RowBodies == {Null(<<>>), NotNull(B_obj)}

\* Rows that differ in what they answer, for the specification Spec.
LookupRows(v) ==
    {Row(k[1], k[2], rb, NotNull("r1"), NotNull(0), Null(<<>>)) :
        k \in RowKeys, rb \in IF v = "body" THEN RowBodies ELSE {Null(<<>>)}}
    \cup {Row(k[1], k[2], rb, NotNull("r2"), NotNull(201), NotNull(H_xTwice)) :
        k \in RowKeys, rb \in IF v = "body" THEN RowBodies ELSE {Null(<<>>)}}

\* Rows with every response the model knows, for the specification SpecMat.
ResponseRows(v) ==
    {Row("/u", m, rb, body, code, hs) :
        m \in Methods,
        rb \in IF v = "body" THEN {Null(<<>>), NotNull(B_obj)} ELSE {Null(<<>>)},
        body \in IF v = "body" THEN {NotNull("r1")} ELSE {NotNull("r1"), Null("")},
        code \in {Null(0), NotNull(0), NotNull(200), NotNull(201), NotNull(404)},
        hs \in {Null(<<>>), NotNull(<<>>), NotNull(H_x), NotNull(H_ctLower),
                NotNull(H_ctEmpty), NotNull(H_ctTwice)}}

\* UNIQUE(path, method), the constraint of the table of src/main.go.
UniqueKeys(rows) ==
    \A a, b \in rows : (a.path = b.path /\ a.method = b.method) => a = b

RECURSIVE SubsetsUpTo(_, _)
SubsetsUpTo(S, n) ==
    IF n = 0 THEN {{}}
    ELSE LET smaller == SubsetsUpTo(S, n - 1)
         IN  smaller \cup {t \cup {x} : t \in smaller, x \in S}

Stores(v, rows, n) ==
    {s \in SubsetsUpTo(rows, n) : v = "body" \/ UniqueKeys(s)}

(***************************************************************************)
(* part_001: the program that matches on the request body                  *)
(***************************************************************************)
\* readRequestBody: the body read whole, or the error of io.ReadAll.  (The
\* server never hands a handler a nil r.Body.)
readRequestBodyNoErr(r) == [body |-> r.Body, err |-> FALSE]

readRequestBody(r) ==
    IF r.BodyErr THEN [body |-> <<>>, err |-> TRUE]
    ELSE [body |-> r.Body, err |-> FALSE]

\* validateAndReturnJSON: the body if json.Unmarshal accepts it, "" otherwise;
\* the error is nil on every path.
validateAndReturnJSON(requestBody) ==
    IF requestBody = <<>> THEN [json |-> <<>>, err |-> FALSE]
    ELSE IF ~UnmarshalOK(requestBody) THEN [json |-> <<>>, err |-> FALSE]
    ELSE [json |-> requestBody, err |-> FALSE]

\* What getMockResponse returns: (*MockResponse, error).  row is the row the
\* store answered with (NoRow when none), kept to state the claims.
NoRow == Row("", "", Null(<<>>), Null(""), Null(0), Null(<<>>))
NoMock == [ResponseBody |-> "", ResponseStatusCode |-> 0, Headers |-> Null(<<>>)]
Failed(e, row) == [err |-> e, mock |-> NoMock, row |-> row]
NotCalled == Failed("not called", NoRow)

\* WHERE path = $1 AND method = $2 AND request_body IS NULL
WhereNoBody(row, path, method) ==
    row.path = path /\ row.method = method /\ ~row.request_body.Valid

\* The WHERE clause of the second query without its test of the method.
WhereBodyAnyMethod(row, path, method, body) ==
    /\ row.path = path
    /\ row.request_body.Valid
    /\ Md5(JsonbText(row.request_body.V)) = Md5(JsonbText(body))

\* WHERE path = $1 AND method = $2
\*   AND md5(request_body::jsonb::text) = md5($3::jsonb::text)
\* md5 of NULL is NULL and NULL = x is not true: a row without request_body
\* is not selected.
WhereBody(row, path, method, body) ==
    /\ row.path = path
    /\ row.method = method
    /\ row.request_body.Valid
    /\ Md5(JsonbText(row.request_body.V)) = Md5(JsonbText(body))

\* row.Scan(&mockResp.ResponseBody, &mockResp.Headers, &mockResp.ResponseStatusCode):
\* a NULL cannot be stored in a string or an int ("converting NULL to int is
\* unsupported"); Headers is a sql.NullString and takes it.
Scan(row) ==
    IF ~row.response_body.Valid \/ ~row.response_status_code.Valid
    THEN Failed("scan", row)
    ELSE [err |-> "nil",
          mock |-> [ResponseBody |-> row.response_body.V,
                    ResponseStatusCode |-> row.response_status_code.V,
                    Headers |-> row.headers],
          row |-> row]

\* What one round trip to the store can give for the rows selected: the
\* context's 5 seconds pass or no connection is to be had (at any time); no
\* row (sql.ErrNoRows); or the first row the store returns, which, the query
\* having no ORDER BY, is any of the rows selected.
QueryRow(selected) ==
    {Failed("timeout", NoRow)}
    \cup (IF selected = {} THEN {Failed("ErrNoRows", NoRow)}
          ELSE {Scan(row) : row \in selected})

\* getMockResponse(path, method, requestBodyJSON): every result it can return.
\* The cast $3::jsonb of a text jsonb rejects fails the query.
getMockResponse(rows, path, method, requestBodyJSON) ==
    IF requestBodyJSON = <<>>
    THEN QueryRow({row \in rows : WhereNoBody(row, path, method)})
    ELSE IF ~JsonbOK(requestBodyJSON)
         THEN {Failed("timeout", NoRow), Failed("cast", NoRow)}
         ELSE QueryRow({row \in rows : WhereBody(row, path, method, requestBodyJSON)})

\* for key, value := range headers { w.Header().Set(key, value) }: a Go map is
\* ranged over in an order that differs from run to run, so every order is
\* possible.
RECURSIVE SetHeaders(_, _)
SetHeaders(w, headers) ==
    IF DOMAIN headers = {} THEN {w}
    ELSE UNION {SetHeaders(HeaderSet(w, k, headers[k]),
                           [x \in DOMAIN headers \ {k} |-> headers[x]]) :
                k \in DOMAIN headers}

\* The rest of writeResponse, the headers being set.
WriteMock(w, mockResp) ==
    LET w1 == IF HeaderGet(w, ContentType) = <<>>
              THEN HeaderSet(w, ContentType, AppJSON) ELSE w
        statusCode == IF mockResp.ResponseStatusCode = 0 THEN StatusOK
                      ELSE mockResp.ResponseStatusCode
    IN  Write(WriteHeader(w1, statusCode), mockResp.ResponseBody)

\* writeResponse(w, mockResp): every response writer it can leave.
writeResponse(w, mockResp) ==
    {WriteMock(w1, mockResp) : w1 \in SetHeaders(w, parseHeaders(mockResp.Headers))}

\* proxyHandler from "if err != nil" on, with the return after http.NotFound
\* left out.
HandleResultNoReturn(w, res) ==
    IF res.err # "nil"
    THEN IF res.err = "ErrNoRows"
         THEN {httpError(httpNotFound(w), "Internal server error",
                         StatusInternalServerError)}
         ELSE {httpError(w, "Internal server error", StatusInternalServerError)}
    ELSE writeResponse(w, res.mock)

\* proxyHandler from "if err != nil" (after getMockResponse) to its end.
HandleResult(w, res) ==
    IF res.err # "nil"
    THEN IF res.err = "ErrNoRows"
         THEN {httpNotFound(w)}
         ELSE {httpError(w, "Internal server error", StatusInternalServerError)}
    ELSE writeResponse(w, res.mock)

Outcome(w, n, res) == [w |-> w, queries |-> n, res |-> res]

\* proxyHandler(w, r, ps) against the rows of the table: every outcome.
proxyHandler(rows, w, r) ==
    LET urlPath == buildFullPath(r)
        method == r.Method
        rb == readRequestBody(r)
        validated == validateAndReturnJSON(rb.body)
    IN  IF rb.err
        THEN {Outcome(httpError(w, "Error reading request body", StatusBadRequest),
                      0, NotCalled)}
        ELSE IF validated.err
        THEN {Outcome(httpError(w, "Invalid JSON", StatusBadRequest), 0, NotCalled)}
        ELSE UNION {{Outcome(w1, 1, res) : w1 \in HandleResult(w, res)} :
                    res \in getMockResponse(rows, urlPath, method, validated.json)}

(***************************************************************************)
(* src/main.go: the program that matches on path and method                *)
(***************************************************************************)
NoMockMain == [Path |-> "", Method |-> "", ResponseBody |-> "",
               ResponseStatusCode |-> 0, Headers |-> <<>>]
FailedMain(e, row) == [err |-> e, mock |-> NoMockMain, row |-> row]

\* row.Scan(&mockResp.Path, ..., &mockResp.Headers, &mockResp.ResponseStatusCode):
\* ResponseBody and Headers are strings and ResponseStatusCode an int, none
\* takes a NULL.
ScanMain(row) ==
    IF ~row.response_body.Valid \/ ~row.headers.Valid \/ ~row.response_status_code.Valid
    THEN FailedMain("scan", row)
    ELSE [err |-> "nil",
          mock |-> [Path |-> row.path, Method |-> row.method,
                    ResponseBody |-> row.response_body.V,
                    ResponseStatusCode |-> row.response_status_code.V,
                    Headers |-> row.headers.V],
          row |-> row]

\* getMockResponse(path, method) of src/main.go: every result it can return.
getMockResponseMain(rows, path, method) ==
    LET selected == {row \in rows : row.path = path /\ row.method = method}
    IN  {FailedMain("timeout", NoRow)}
        \cup (IF selected = {} THEN {FailedMain("ErrNoRows", NoRow)}
              ELSE {ScanMain(row) : row \in selected})

\* proxyHandler of src/main.go from "headers := parseHeaders" to its end.
writeResponseMain(w, mockResp) ==
    {WriteMock(w1, mockResp) : w1 \in SetHeaders(w, parseHeadersMain(mockResp.Headers))}

\* proxyHandler of src/main.go: every outcome.  The body is not read.
proxyHandlerMain(rows, w, r) ==
    LET urlPath == buildFullPath(r)
        method == r.Method
    IN  UNION {{Outcome(w1, 1, res) :
                    w1 \in IF res.err # "nil"
                           THEN IF res.err = "ErrNoRows" THEN {httpNotFound(w)}
                                ELSE {httpError(w, "Internal server error",
                                                StatusInternalServerError)}
                           ELSE writeResponseMain(w, res.mock)} :
               res \in getMockResponseMain(rows, urlPath, method)}

(***************************************************************************)
(* initDB and sync.Once                                                    *)
(***************************************************************************)
\* main, and the other goroutines that call initDB.
MainCaller == 0
Callers == 0..ExtraCallers
NoCaller == -1

\* initDB: var err error, then once.Do is entered.
InitDBCall(c) ==
    /\ pc[c] = "idle"
    /\ callErr' = [callErr EXCEPT ![c] = "nil"]
    /\ pc' = [pc EXCEPT ![c] = "Do"]
    /\ UNCHANGED <<ret, onceDone, onceMu, db, runs, finished, world, serving,
                   handlerVars, hdrVars>>

\* Once.Do: if o.done.Load() == 0 { o.doSlow(f) }
OnceDo(c) ==
    /\ pc[c] = "Do"
    /\ pc' = [pc EXCEPT ![c] = IF onceDone THEN "return" ELSE "lock"]
    /\ UNCHANGED <<callErr, ret, onceDone, onceMu, db, runs, finished, world, serving,
                   handlerVars, hdrVars>>

\* doSlow: o.m.Lock()
OnceLock(c) ==
    /\ pc[c] = "lock"
    /\ onceMu = NoCaller
    /\ onceMu' = c
    /\ pc' = [pc EXCEPT ![c] = "locked"]
    /\ UNCHANGED <<callErr, ret, onceDone, db, runs, finished, world, serving,
                   handlerVars, hdrVars>>

\* doSlow without its second test of done: f is run by whoever holds the lock.
OnceCheckBlind(c) ==
    /\ pc[c] = "locked"
    /\ pc' = [pc EXCEPT ![c] = "open"]
    /\ runs' = runs + 1
    /\ UNCHANGED <<callErr, ret, onceDone, onceMu, db, finished, world, serving,
                   handlerVars, hdrVars>>

\* doSlow: if o.done.Load() == 0 { defer o.done.Store(1); f() }
OnceCheck(c) ==
    /\ pc[c] = "locked"
    /\ IF onceDone
       THEN pc' = [pc EXCEPT ![c] = "unlock"] /\ runs' = runs
       ELSE pc' = [pc EXCEPT ![c] = "open"] /\ runs' = runs + 1
    /\ UNCHANGED <<callErr, ret, onceDone, onceMu, db, finished, world, serving,
                   handlerVars, hdrVars>>

\* db, err = sql.Open("postgres", connStr); if err != nil { return }
SqlOpen(c) ==
    /\ pc[c] = "open"
    /\ IF world.open
       THEN /\ db' = "open"
            /\ pc' = [pc EXCEPT ![c] = "ping"]
            /\ UNCHANGED callErr
       ELSE /\ db' = "nil"
            /\ callErr' = [callErr EXCEPT ![c] = "open failed"]
            /\ pc' = [pc EXCEPT ![c] = "exit"]
    /\ UNCHANGED <<ret, onceDone, onceMu, runs, finished, world, serving,
                   handlerVars, hdrVars>>

\* if err = db.Ping(); err != nil { db.Close(); return }
DbPing(c) ==
    /\ pc[c] = "ping"
    /\ IF world.ping
       THEN /\ pc' = [pc EXCEPT ![c] = "configure"]
            /\ UNCHANGED <<callErr, db,
                   handlerVars, hdrVars>>
       ELSE /\ db' = "closed"
            /\ callErr' = [callErr EXCEPT ![c] = "ping failed"]
            /\ pc' = [pc EXCEPT ![c] = "exit"]
    /\ UNCHANGED <<ret, onceDone, onceMu, runs, finished, world, serving,
                   handlerVars, hdrVars>>

\* db.SetMaxOpenConns(10) ... db.SetConnMaxIdleTime(3 * time.Minute)
DbConfigure(c) ==
    /\ pc[c] = "configure"
    /\ db' = "configured"
    /\ pc' = [pc EXCEPT ![c] = "exit"]
    /\ UNCHANGED <<callErr, ret, onceDone, onceMu, runs, finished, world, serving,
                   handlerVars, hdrVars>>

\* f has returned: the deferred o.done.Store(1)
OnceStoreDone(c) ==
    /\ pc[c] = "exit"
    /\ onceDone' = TRUE
    /\ finished' = finished + 1
    /\ pc' = [pc EXCEPT ![c] = "unlock"]
    /\ UNCHANGED <<callErr, ret, onceMu, db, runs, world, serving,
                   handlerVars, hdrVars>>

\* the deferred o.m.Unlock()
OnceUnlock(c) ==
    /\ pc[c] = "unlock"
    /\ onceMu' = NoCaller
    /\ pc' = [pc EXCEPT ![c] = "return"]
    /\ UNCHANGED <<callErr, ret, onceDone, db, runs, finished, world, serving,
                   handlerVars, hdrVars>>

\* return err
InitDBReturn(c) ==
    /\ pc[c] = "return"
    /\ ret' = [ret EXCEPT ![c] = callErr[c]]
    /\ pc' = [pc EXCEPT ![c] = "done"]
    /\ UNCHANGED <<callErr, onceDone, onceMu, db, runs, finished, world, serving,
                   handlerVars, hdrVars>>

\* main: if err := initDB(); err != nil { log.Fatal(...) }, and on to
\* http.ListenAndServe.
MainServe ==
    /\ pc[MainCaller] = "done"
    /\ IF ret[MainCaller] = "nil"
       THEN pc' = [pc EXCEPT ![MainCaller] = "serving"] /\ serving' = TRUE
       ELSE pc' = [pc EXCEPT ![MainCaller] = "fatal"] /\ serving' = FALSE
    /\ UNCHANGED <<callErr, ret, onceDone, onceMu, db, runs, finished, world,
                   handlerVars, hdrVars>>

(***************************************************************************)
(* Specifications                                                          *)
(***************************************************************************)
HdrIdle == hdrIn = Null(<<>>) /\ hdrOut = EmptyMap /\ hdrBy = "none"

HandlerIdle ==
    /\ variant = "body" /\ store = {} /\ req = NoRequest /\ dbres = NotCalled
    /\ resp = NewWriter /\ queries = 0

InitIdle ==
    /\ pc = [c \in Callers |-> "idle"]
    /\ callErr = [c \in Callers |-> "nil"]
    /\ ret = [c \in Callers |-> "none"]
    /\ onceDone = FALSE /\ onceMu = NoCaller /\ db = "nil"
    /\ runs = 0 /\ finished = 0 /\ serving = FALSE
    /\ world = [open |-> TRUE, ping |-> TRUE]

\* The server of part_001 answers a request.  The handler reads the store in
\* one statement and shares nothing else with the handlers running beside it,
\* so a run of the action is any interleaving of it with the others.
ServeForget ==
    /\ variant = "body"
    /\ \E r \in Requests : \E o \in proxyHandler(store, NewWriter, r) :
          /\ req' = r /\ resp' = o.w /\ queries' = o.queries /\ dbres' = o.res
          /\ store' = store \ {o.res.row}
    /\ UNCHANGED <<variant, hdrVars, initVars>>

Serve ==
    /\ variant = "body"
    /\ \E r \in Requests : \E o \in proxyHandler(store, NewWriter, r) :
          req' = r /\ resp' = o.w /\ queries' = o.queries /\ dbres' = o.res
    /\ UNCHANGED <<variant, store, hdrVars, initVars>>

\* The server of src/main.go answers a request.
ServeMain ==
    /\ variant = "main"
    /\ \E r \in Requests : \E o \in proxyHandlerMain(store, NewWriter, r) :
          req' = r /\ resp' = o.w /\ queries' = o.queries /\ dbres' = o.res
    /\ UNCHANGED <<variant, store, hdrVars, initVars>>

NextServe == Serve \/ ServeMain

ServeInit(rowsOf(_), n) ==
    /\ variant \in {"body", "main"}
    /\ store \in Stores(variant, rowsOf(variant), n)
    /\ req = NoRequest /\ dbres = NotCalled /\ resp = NewWriter /\ queries = 0
    /\ HdrIdle /\ InitIdle

\* Requests against a table of up to MaxRecords rows that differ in their key.
Init == ServeInit(LookupRows, MaxRecords)
Spec == Init /\ [][NextServe]_vars

\* Requests against a table of one row, of any response.
InitMat ==
    /\ variant \in {"body", "main"}
    /\ \E row \in ResponseRows(variant) : store = {row}
    /\ req = NoRequest /\ dbres = NotCalled /\ resp = NewWriter /\ queries = 0
    /\ HdrIdle /\ InitIdle
SpecMat == InitMat /\ [][NextServe]_vars

\* parseHeaders applied to every header list of up to MaxLen characters.
HdrAlphabet == {"a", "=", ";", " "}
RECURSIVE SeqsUpTo(_, _)
SeqsUpTo(S, n) ==
    IF n = 0 THEN {<<>>}
    ELSE LET shorter == SeqsUpTo(S, n - 1)
         IN  shorter \cup {Append(t, x) : t \in {u \in shorter : Len(u) = n - 1}, x \in S}

DecodeHeaders ==
    /\ hdrBy = "none"
    /\ hdrOut' = parseHeaders(hdrIn)
    /\ hdrBy' = "part_001"
    /\ UNCHANGED <<hdrIn, handlerVars, initVars>>

DecodeHeadersMain ==
    /\ hdrBy = "none"
    /\ hdrIn.Valid
    /\ hdrOut' = parseHeadersMain(hdrIn.V)
    /\ hdrBy' = "main"
    /\ UNCHANGED <<hdrIn, handlerVars, initVars>>

InitHdr ==
    /\ hdrIn \in {Null(<<>>)} \cup {NotNull(t) : t \in SeqsUpTo(HdrAlphabet, MaxLen)}
    /\ hdrOut = EmptyMap /\ hdrBy = "none"
    /\ HandlerIdle /\ InitIdle
NextHdr == DecodeHeaders \/ DecodeHeadersMain
SpecHdr == InitHdr /\ [][NextHdr]_vars

\* initDB called by main and by ExtraCallers other goroutines, at any time,
\* against a server that accepts or refuses sql.Open and db.Ping.
InitOnce ==
    /\ pc = [c \in Callers |-> "idle"]
    /\ callErr = [c \in Callers |-> "nil"]
    /\ ret = [c \in Callers |-> "none"]
    /\ onceDone = FALSE /\ onceMu = NoCaller /\ db = "nil"
    /\ runs = 0 /\ finished = 0 /\ serving = FALSE
    /\ world \in [open : BOOLEAN, ping : BOOLEAN]
    /\ HandlerIdle /\ HdrIdle
NextOnce ==
    \/ \E c \in Callers : InitDBCall(c)
    \/ \E c \in Callers : OnceDo(c)
    \/ \E c \in Callers : OnceLock(c)
    \/ \E c \in Callers : OnceCheck(c)
    \/ \E c \in Callers : SqlOpen(c)
    \/ \E c \in Callers : DbPing(c)
    \/ \E c \in Callers : DbConfigure(c)
    \/ \E c \in Callers : OnceStoreDone(c)
    \/ \E c \in Callers : OnceUnlock(c)
    \/ \E c \in Callers : InitDBReturn(c)
    \/ MainServe
SpecOnce == InitOnce /\ [][NextOnce]_vars

(***************************************************************************)
(* The claims                                                              *)
(***************************************************************************)
Handled == req # NoRequest

\* The request's full path: its path, and "?" and the raw query when there is one.
FullPath == IF req.RawQuery = "" THEN req.Path ELSE req.Path \o "?" \o req.RawQuery

\* The store answered the last request with a row, and the handler wrote that
\* row's body as the response.
ReturnedRecord ==
    dbres.err = "nil" /\ dbres.row \in store /\ resp.out = <<dbres.row.response_body.V>>

\* The rows whose path, method and non-null request_body (by canonical JSON
\* text) are those of the last request.
BodyMatches ==
    {row \in store :
        /\ row.path = FullPath /\ row.method = req.Method
        /\ row.request_body.Valid
        /\ JsonbText(row.request_body.V) = JsonbText(req.Body)}

\* The rows without request_body whose path and method are the last request's.
NoBodyMatches ==
    {row \in store :
        row.path = FullPath /\ row.method = req.Method /\ ~row.request_body.Valid}

\* The response is one of http.Error: its two headers and nothing of a row.
ErrorResponse(code) ==
    /\ resp.status = code
    /\ DOMAIN resp.header = {ContentType, NoSniffKey}
    /\ resp.header[ContentType] = TextPlain

PromisedStatus(row) ==
    IF row.response_status_code.Valid /\ row.response_status_code.V # 0
    THEN row.response_status_code.V ELSE StatusOK

\* C2 as stated: in the body-aware program, a request with an empty body or one
\* that is no JSON text, answered by a store that neither times out nor lacks
\* a connection, carries the status, headers and body of every registered
\* record without request_body that has its method and full path, and is never
\* a 400.  (Of the headers, those decoded with a non-empty value.)
C2_NoBodyRecord ==
    (variant = "body" /\ Handled /\ ~req.BodyErr /\ dbres.err # "timeout"
        /\ (req.Body = <<>> \/ ~ParseJSON(req.Body).ok))
    => /\ resp.status # StatusBadRequest
       /\ \A row \in NoBodyMatches :
            /\ resp.status = PromisedStatus(row)
            /\ resp.out = <<row.response_body.V>>
            /\ \A k \in DOMAIN parseHeaders(row.headers) :
                 parseHeaders(row.headers)[k] # <<>>
                 => HeaderGet(resp, k) = parseHeaders(row.headers)[k]

Selected ==
    IF variant = "main"
    THEN {row \in store : row.path = FullPath /\ row.method = req.Method}
    ELSE IF req.BodyErr THEN {}
    ELSE IF req.Body # <<>> /\ UnmarshalOK(req.Body) THEN BodyMatches
    ELSE NoBodyMatches

\* No two keys of the row's header list name the same header.
OneKeyPerHeader(row) ==
    \A k1, k2 \in DOMAIN parseHeaders(row.headers) :
        CanonicalMIMEHeaderKey(k1) = CanonicalMIMEHeaderKey(k2) => k1 = k2

\* C4 as stated: handling a request leaves the rows of the table as they were,
\* and a request handled twice in a row, the store answering both times
\* (no timeout, no missing connection), gets the same status, headers and body.
C4_AsStated ==
    [][/\ store' = store
       /\ (Handled /\ req' = req /\ dbres.err # "timeout" /\ dbres'.err # "timeout")
            => resp' = resp]_vars

\* C4 as amended: handling a request leaves the rows of the table as they
\* were, and a request handled twice in a row, the store answering both times,
\* gets the same status, headers and body provided its lookup selects at most
\* one row and that row's header list names no header under two spellings.
C4_ReadOnly ==
    [][/\ store' = store
       /\ (Handled /\ req' = req /\ dbres.err # "timeout" /\ dbres'.err # "timeout"
             /\ Cardinality(Selected) <= 1
             /\ \A row \in Selected : OneKeyPerHeader(row))
            => resp' = resp]_vars

\* A request answered from the one row it selects, in a table of two rows.
C4_Witness ==
    /\ Handled /\ ReturnedRecord /\ Selected = {dbres.row}
    /\ Cardinality(store) = 2 /\ OneKeyPerHeader(dbres.row)

\* C5 as stated: in the body-aware program a record the store answers with
\* yields 200 and the record's body when its response_status_code is NULL or
\* zero, and its own status code otherwise.
C5_DefaultStatus ==
    (variant = "body" /\ Handled /\ dbres.row \in store)
    => /\ resp.status = PromisedStatus(dbres.row)
       /\ resp.out = <<dbres.row.response_body.V>>

\* The Content-Type entries a row's header list decodes to (a key of any
\* letter case, with a value that is not empty).
ContentTypeKeys(row) ==
    {k \in DOMAIN parseHeaders(row.headers) :
        CanonicalMIMEHeaderKey(k) = ContentType /\ parseHeaders(row.headers)[k] # <<>>}

\* C6 as stated: for a record the store answers with (whose status code and
\* body are not NULL), in either program, the response has Content-Type
\* application/json when the decoded headers hold no Content-Type entry
\* (headers NULL or empty included), and the record's value for it otherwise.
C6_DefaultContentType ==
    (Handled /\ dbres.row \in store /\ dbres.row.response_status_code.Valid
        /\ dbres.row.response_body.Valid)
    => IF ContentTypeKeys(dbres.row) = {}
       THEN HeaderGet(resp, ContentType) = AppJSON
       ELSE \E k \in ContentTypeKeys(dbres.row) :
               HeaderGet(resp, ContentType) = parseHeaders(dbres.row.headers)[k]

\* C8 as stated: every request handled makes exactly one query.
C8_AsStated == Handled => queries = 1

\* C8 as amended: every request handled makes exactly one query (found, not
\* found, store error, malformed body), except a request whose body cannot be
\* read, which the body-aware handler answers 400 without any query.
C8_OneQuery ==
    Handled =>
       IF variant = "body" /\ req.BodyErr
       THEN queries = 0 /\ ErrorResponse(StatusBadRequest)
       ELSE queries = 1 /\ dbres.err # "not called"

\* A request with a malformed body is answered from a row after one query.
C8_Witness ==
    /\ variant = "body" /\ req.Body = B_truncated /\ ReturnedRecord /\ queries = 1

(***************************************************************************)
(* C7: parseHeaders against the mapping the specification describes, read   *)
(* off the positions of ";" and "=" in the text.                            *)
(***************************************************************************)
\* The indices at which a segment of s starts: 1 and after every ";".
SegStarts(s) == {1} \cup {p + 1 : p \in {i \in 1..Len(s) : s[i] = ";"}}

\* The last index of the segment that starts at a.
SegEnd(s, a) ==
    LET stops == {i \in a..Len(s) : s[i] = ";"} \cup {Len(s) + 1}
    IN  (CHOOSE e \in stops : \A f \in stops : e <= f) - 1

\* The indices of "=" in the segment that starts at a.
SegEquals(s, a) == {i \in a..SegEnd(s, a) : s[i] = "="}

FirstEquals(s, a) ==
    CHOOSE e \in SegEquals(s, a) : \A f \in SegEquals(s, a) : e <= f

\* s[lo..hi] without the white space around it.
Stripped(s, lo, hi) ==
    LET inked == {i \in lo..hi : s[i] # " "}
    IN  IF inked = {} THEN <<>>
        ELSE LET first == CHOOSE i \in inked : \A j \in inked : i <= j
                 last == CHOOSE i \in inked : \A j \in inked : j <= i
             IN  [i \in 1..(last - first + 1) |-> s[first + i - 1]]

SegKey(s, a) == Stripped(s, a, FirstEquals(s, a) - 1)
SegValue(s, a) == Stripped(s, FirstEquals(s, a) + 1, SegEnd(s, a))

\* The mapping: a key for every segment with a "=", its value from the last
\* such segment.
DescribedMapping(s) ==
    LET pairs == {a \in SegStarts(s) : SegEquals(s, a) # {}}
    IN  [k \in {SegKey(s, a) : a \in pairs} |->
            LET last == CHOOSE a \in pairs :
                           SegKey(s, a) = k
                           /\ \A b \in pairs : SegKey(s, b) = k => b <= a
            IN  SegValue(s, last)]

\* C7: parseHeaders (of either program) returns the described mapping, the
\* empty mapping for NULL and for the empty text, and for "a=a;" the one entry
\* a -> a.
C7_ParseHeaders ==
    hdrBy # "none" =>
       /\ hdrOut = IF hdrIn.Valid THEN DescribedMapping(hdrIn.V) ELSE EmptyMap
       /\ (~hdrIn.Valid \/ hdrIn.V = <<>>) => hdrOut = EmptyMap
       /\ (hdrIn.Valid /\ hdrIn.V = <<"a","=","a",";">>)
            => hdrOut = [k \in {<<"a">>} |-> <<"a">>]

\* A list naming the key a twice, the second time with an empty value, and
\* ending in a segment with no "=": the later value stands.
C7_Witness ==
    /\ hdrBy # "none" /\ hdrIn = NotNull(<<"a","=","a",";","a","=">>)
    /\ hdrOut = [k \in {<<"a">>} |-> <<>>]

(***************************************************************************)
(* C9, C10: initDB                                                          *)
(***************************************************************************)
Returned(c) == pc[c] \in {"done", "serving", "fatal"}

\* C9: the body given to once.Do is entered at most once, and a caller that
\* has returned from initDB finds it entered once and finished.
C9_InitOnce ==
    /\ runs <= 1 /\ finished <= runs
    /\ \A c \in Callers : Returned(c) => (runs = 1 /\ finished = 1)

\* Every caller has returned, main and another, after one initialization.
C9_Witness ==
    /\ \A c \in Callers : Returned(c)
    /\ Cardinality(Callers) >= 2 /\ runs = 1

\* C10 as stated: every call of initDB returns nil exactly when the pool was
\* opened, passed the probe and was configured; after a failed initialization
\* the pool is not left open and main does not start serving.
C10_InitResult ==
    \A c \in Callers : Returned(c) =>
       /\ ret[c] = "nil" <=> db = "configured"
       /\ db # "configured" => (db \in {"nil", "closed"} /\ ~serving)

====
